---- MODULE Spec2Model ----
(***************************************************************************)
(* YM2149 driver (src/src/lib.rs): the pin-level bus protocol and the      *)
(* register operations built on it.                                        *)
(*                                                                         *)
(* The driver owns ten output pins (BDIR, BC1, D0..D7) and a delay         *)
(* provider.  Every driver function is a straight-line list of pin sets    *)
(* and delays in which each fallible call is followed by `?`.  A function  *)
(* is modelled by the list of instructions it issues, a public operation   *)
(* by the list of its set_register_value calls; the instructions are run   *)
(* one per step against the pins, and a pin set may fail at any step.      *)
(***************************************************************************)
EXTENDS Integers, Sequences, FiniteSets, TLC

VARIABLES
    pins,       \* electrical level of each pin: High or Low
    op,         \* the operation in progress or just finished; NoCall between two
    todo,       \* the register writes it has not started yet: <<address, data>>
    frame,      \* instructions left of the function call it is in
    trace,      \* the pin sets and delays it has issued so far, in order
    result,     \* its return value; Idle once the caller has taken it
    startPins,  \* the pin levels when it was called
    nfail,      \* pin faults injected so far
    prev        \* whether the call before returned Ok, and then the call and
                \* its events while it is a call to compare with this one

vars == <<pins, op, todo, frame, trace, result, startPins, nfail, prev>>

----------------------------------------------------------------------------
(* Bounds and input samples *)

\* pin faults the environment injects in one run
MaxFail == 1

\* u8 arguments: register values, noise periods, I/O port data
ByteSamples == {52, 255}
\* raw register addresses given to set_register_value (0x7, 0xF2)
AddrSamples == {7, 242}
\* u16 arguments: 0x1234, 0xF0FF
FreqSamples == {4660, 61695}
\* ChannelLevel::Fixed payloads
LevelSamples == {20, 255}
\* MixerSettings raw bytes (all eight bits are flags)
MixerSamples == {56, 255}
\* EnvelopeShape raw bytes (four flags)
ShapeSamples == {13, 15}
\* I/O port data: one byte that is also a shape, one that is not
PortSamples == {13, 255}
\* data bytes on D0..D7 before the driver is constructed
InitDataSamples == {0, 165}

----------------------------------------------------------------------------
(* Pins, instructions, events *)

DataPins == <<"d0", "d1", "d2", "d3", "d4", "d5", "d6", "d7">>

Pins == {"bdir", "bc1"} \cup {DataPins[i] : i \in 1..8}

\* PinState::High, PinState::Low
High == 1
Low == 0

\* OutputPin::set_high / set_low / set_state on pin p
SetPin(p, level) == [pin |-> p, arg |-> level]

\* DelayNs::delay_us on the delay provider
DelayUs(us) == [pin |-> "delay_us", arg |-> us]

\* the error value pin p reports when a set on it fails (P::Error)
PinFault(p) == p

\* mutant: the driver reports an error code of its own
PinError_own_code(e) == [st |-> "Err", e |-> "bus"]

\* Error::PinError(e)
PinError(e) == [st |-> "Err", e |-> e]

Ok == [st |-> "Ok", e |-> "none"]

Running == [st |-> "running", e |-> "none"]

Idle == [st |-> "idle", e |-> "none"]

\* an issued instruction with its outcome: "ok" or the error the pin reported
Event(inst, outcome) == [pin |-> inst.pin, arg |-> inst.arg, err |-> outcome]

\* (data >> i) & 0x01
Bit(data, i) == (data \div (2 ^ i)) % 2

\* if bit == 1 { PinState::High } else { PinState::Low }
StateOf(bit) == IF bit = 1 THEN High ELSE Low

\* the byte the data lines D0..D7 encode
RECURSIVE DataFrom(_, _)
DataFrom(p, i) ==
    IF i > 8 THEN 0
    ELSE (IF p[DataPins[i]] = High THEN 2 ^ (i - 1) ELSE 0) + DataFrom(p, i + 1)

DataByte(p) == DataFrom(p, 1)

BusMode(p) ==
    IF p["bdir"] = High
    THEN (IF p["bc1"] = High THEN "AddressLatch" ELSE "Write")
    ELSE (IF p["bc1"] = High THEN "Invalid" ELSE "Inactive")

----------------------------------------------------------------------------
(* Bus protocol engine *)

write_mode == <<SetPin("bdir", High), SetPin("bc1", Low)>>

\* mutant: BC1 is raised before BDIR
address_mode_bc1_first == <<SetPin("bc1", High), SetPin("bdir", High)>>

address_mode == <<SetPin("bdir", High), SetPin("bc1", High)>>

\* mutant: leaving a mode also releases the data lines
inactive_mode_releases_data ==
    <<SetPin("bdir", Low), SetPin("bc1", Low)>>
        \o [i \in 1..8 |-> SetPin(DataPins[i], Low)]

\* mutant: only BDIR is lowered
inactive_mode_bdir_only == <<SetPin("bdir", Low)>>

inactive_mode == <<SetPin("bdir", Low), SetPin("bc1", Low)>>

\* mutant: the data lines are set from D7 down to D0
write_u8_msb_first(data) ==
    [i \in 1..8 |-> SetPin(DataPins[9 - i], StateOf(Bit(data, 8 - i)))]

\* mutant: a data line already at the wanted level is not set again
write_u8_skip_unchanged(data) ==
    SelectSeq([i \in 1..8 |-> SetPin(DataPins[i], StateOf(Bit(data, i - 1)))],
              LAMBDA inst : pins[inst.pin] # inst.arg)

write_u8(data) ==
    <<SetPin("d0", StateOf(Bit(data, 0))),
      SetPin("d1", StateOf(Bit(data, 1))),
      SetPin("d2", StateOf(Bit(data, 2))),
      SetPin("d3", StateOf(Bit(data, 3))),
      SetPin("d4", StateOf(Bit(data, 4))),
      SetPin("d5", StateOf(Bit(data, 5))),
      SetPin("d6", StateOf(Bit(data, 6))),
      SetPin("d7", StateOf(Bit(data, 7)))>>

\* mutant: the address is driven before the bus enters AddressLatch
set_address_drive_first(address) ==
    write_u8(address) \o address_mode \o <<DelayUs(1)>>
        \o inactive_mode \o <<DelayUs(1)>>

\* mutant: no settle delay while the address is latched
set_address_no_settle(address) ==
    address_mode \o write_u8(address) \o inactive_mode \o <<DelayUs(1)>>

set_address(address) ==
    address_mode \o write_u8(address) \o <<DelayUs(1)>>
        \o inactive_mode \o <<DelayUs(1)>>

\* mutant: the Write pulse is raised before the data lines are driven
set_data_pulse_first(data) ==
    write_mode \o write_u8(data) \o <<DelayUs(1)>>
        \o inactive_mode \o <<DelayUs(1)>>

set_data(data) ==
    write_u8(data) \o write_mode \o <<DelayUs(1)>>
        \o inactive_mode \o <<DelayUs(1)>>

\* mutant: the bus is left in Write mode after the data pulse
set_register_value_no_release(address, data) ==
    set_address(address) \o write_u8(data) \o write_mode \o <<DelayUs(1)>>
        \o <<DelayUs(1), DelayUs(1), DelayUs(1)>>

set_register_value(address, data) == set_address(address) \o set_data(data)

----------------------------------------------------------------------------
(* Register semantics layer: each operation as its list of register writes *)

Channels == {"A", "B", "C"}

IoPorts == {"A", "B"}

\* `frequency as u8`
LowByte(frequency) == frequency % 256

\* mutant: the high byte masked to the 12-bit tone period
HighByte_masked(frequency) == (frequency \div 256) % 16

\* `(frequency >> 8) as u8`
HighByte(frequency) == (frequency \div 256) % 256

FineRegister(channel) ==
    CASE channel = "A" -> 0
      [] channel = "B" -> 2
      [] channel = "C" -> 4

RoughRegister(channel) ==
    CASE channel = "A" -> 1
      [] channel = "B" -> 3
      [] channel = "C" -> 5

LevelRegister(channel) ==
    CASE channel = "A" -> 8
      [] channel = "B" -> 9
      [] channel = "C" -> 10

\* mutant: the fixed level is not masked
LevelData_unmasked(tag, level) ==
    IF tag = "Fixed" THEN level ELSE 16

\* level & 0b1111 for Fixed(level), 0b10000 for Envelope
LevelData(tag, level) ==
    IF tag = "Fixed" THEN level % 16 ELSE 16

\* mutant: port B moved off the envelope shape register
IoRegister_unaliased(port) ==
    CASE port = "A" -> 14
      [] port = "B" -> 15

IoRegister(port) ==
    CASE port = "A" -> 14
      [] port = "B" -> 13

\* mutant: the loop stops one register short
clear_all_registers_short == [i \in 1..15 |-> <<i - 1, 0>>]

clear_all_registers == [i \in 1..16 |-> <<i - 1, 0>>]

set_channel_frequency(channel, frequency) ==
    <<<<FineRegister(channel), LowByte(frequency)>>,
      <<RoughRegister(channel), HighByte(frequency)>>>>

\* mutant: the noise period cut to the five bits the chip uses
set_noise_five_bits(frequency) == <<<<6, frequency % 32>>>>

set_noise(frequency) == <<<<6, frequency>>>>

set_mixer_settings(bits) == <<<<7, bits>>>>

set_channel_level(channel, tag, level) ==
    <<<<LevelRegister(channel), LevelData(tag, level)>>>>

\* mutant: the rough register is written first
set_envelope_frequency_rough_first(frequency) ==
    <<<<12, HighByte(frequency)>>, <<11, LowByte(frequency)>>>>

set_envelope_frequency(frequency) ==
    <<<<11, LowByte(frequency)>>, <<12, HighByte(frequency)>>>>

set_envelope_shape(bits) == <<<<13, bits>>>>

set_io_port_data(port, data) == <<<<IoRegister(port), data>>>>

\* mutant: the driver is handed out in Write mode
new_write_mode == write_mode

\* Ym2149::new: the struct is built, then inactive_mode()?
new == inactive_mode

----------------------------------------------------------------------------
(* Execution *)

\* the call in progress: name and arguments (unused arguments are "-" or 0)
Call(name, ch, tag, a, d) == [name |-> name, ch |-> ch, tag |-> tag, a |-> a, d |-> d]

NoCall == Call("-", "-", "-", 0, 0)

NoPrev(ok) == [op |-> NoCall, trace |-> <<>>, ok |-> ok]

\* calls whose events are compared: a call repeated, and set_io_port_data
\* after or before set_envelope_shape with the same byte
Compared(o, c) ==
    \/ c = o
    \/ /\ {o.name, c.name} = {"set_envelope_shape", "set_io_port_data"}
       /\ o.d = c.d

NextInst == Head(frame)

\* the instructions that follow in the frame, or the next register write's
FrameAfter(f, t) ==
    IF f # <<>> THEN f
    ELSE IF t # <<>> THEN set_register_value(t[1][1], t[1][2])
    ELSE <<>>

TodoAfter(f, t) == IF f = <<>> /\ t # <<>> THEN Tail(t) ELSE t

\* mutant: a failed register write is given up, the operation goes on
QuestionMark_next_write(t) == t

\* `?` after a failed call: every enclosing function returns the error at once
QuestionMark(t) == <<>>

\* new() returns the driver only with Ok
Constructed == op.name # "new" \/ result.st = "Ok"

CanCall == result.st = "idle"

Begin(call, writes) ==
    /\ op' = call
    /\ frame' = FrameAfter(<<>>, writes)
    /\ todo' = TodoAfter(<<>>, writes)
    /\ trace' = <<>>
    /\ result' = Running
    /\ startPins' = pins
    /\ prev' = IF Compared(prev.op, call) THEN prev ELSE NoPrev(prev.ok)
    /\ UNCHANGED <<pins, nfail>>

Init ==
    /\ \E c \in [{"bdir", "bc1"} -> {Low, High}], d \in InitDataSamples :
         pins = [p \in Pins |->
                   IF p \in {"bdir", "bc1"} THEN c[p]
                   ELSE StateOf(Bit(d, (CHOOSE i \in 1..8 : DataPins[i] = p) - 1))]
    /\ op = Call("new", "-", "-", 0, 0)
    /\ todo = <<>>
    /\ frame = new
    /\ trace = <<>>
    /\ result = Running
    /\ startPins = pins
    /\ nfail = 0
    /\ prev = NoPrev(FALSE)

CallSetRegisterValue ==
    /\ CanCall
    /\ \E a \in AddrSamples, d \in ByteSamples :
         Begin(Call("set_register_value", "-", "-", a, d), <<<<a, d>>>>)

CallClearAllRegisters ==
    /\ CanCall
    /\ Begin(Call("clear_all_registers", "-", "-", 0, 0), clear_all_registers)

CallSetChannelFrequency ==
    /\ CanCall
    /\ \E ch \in Channels, f \in FreqSamples :
         Begin(Call("set_channel_frequency", ch, "-", 0, f), set_channel_frequency(ch, f))

CallSetNoise ==
    /\ CanCall
    /\ \E f \in ByteSamples :
         Begin(Call("set_noise", "-", "-", 0, f), set_noise(f))

CallSetMixerSettings ==
    /\ CanCall
    /\ \E s \in MixerSamples :
         Begin(Call("set_mixer_settings", "-", "-", 0, s), set_mixer_settings(s))

CallSetChannelLevel ==
    /\ CanCall
    /\ \E ch \in Channels :
         \/ \E n \in LevelSamples :
              Begin(Call("set_channel_level", ch, "Fixed", 0, n),
                    set_channel_level(ch, "Fixed", n))
         \/ Begin(Call("set_channel_level", ch, "Envelope", 0, 0),
                  set_channel_level(ch, "Envelope", 0))

CallSetEnvelopeFrequency ==
    /\ CanCall
    /\ \E f \in FreqSamples :
         Begin(Call("set_envelope_frequency", "-", "-", 0, f), set_envelope_frequency(f))

CallSetEnvelopeShape ==
    /\ CanCall
    /\ \E s \in ShapeSamples :
         Begin(Call("set_envelope_shape", "-", "-", 0, s), set_envelope_shape(s))

CallSetIoPortData ==
    /\ CanCall
    /\ \E port \in IoPorts, d \in PortSamples :
         Begin(Call("set_io_port_data", port, "-", 0, d), set_io_port_data(port, d))

\* a pin set that succeeds
PinSetOk ==
    /\ result.st = "running"
    /\ NextInst.pin \in Pins
    /\ pins' = [pins EXCEPT ![NextInst.pin] = NextInst.arg]
    /\ trace' = Append(trace, Event(NextInst, "ok"))
    /\ frame' = FrameAfter(Tail(frame), todo)
    /\ todo' = TodoAfter(Tail(frame), todo)
    /\ result' = IF frame' = <<>> THEN Ok ELSE Running
    /\ UNCHANGED <<op, startPins, nfail, prev>>

\* a pin set that fails: the pin stays at the level it had
PinSetFail ==
    /\ result.st = "running"
    /\ NextInst.pin \in Pins
    /\ nfail < MaxFail
    /\ nfail' = nfail + 1
    /\ pins' = pins
    /\ trace' = Append(trace, Event(NextInst, PinFault(NextInst.pin)))
    /\ frame' = FrameAfter(<<>>, QuestionMark(todo))
    /\ todo' = TodoAfter(<<>>, QuestionMark(todo))
    /\ result' = IF frame' = <<>> THEN PinError(PinFault(NextInst.pin)) ELSE Running
    /\ UNCHANGED <<op, startPins, prev>>

\* the operation has returned: the caller takes the result and may call again
Return ==
    /\ result.st \in {"Ok", "Err"}
    /\ Constructed
    /\ prev' = IF result.st = "Ok"
               THEN [op |-> op, trace |-> trace, ok |-> TRUE]
               ELSE NoPrev(FALSE)
    /\ op' = NoCall
    /\ trace' = <<>>
    /\ result' = Idle
    /\ startPins' = pins
    /\ UNCHANGED <<pins, todo, frame, nfail>>

\* a delay: it cannot fail
Delay ==
    /\ result.st = "running"
    /\ NextInst.pin = "delay_us"
    /\ trace' = Append(trace, Event(NextInst, "ok"))
    /\ frame' = FrameAfter(Tail(frame), todo)
    /\ todo' = TodoAfter(Tail(frame), todo)
    /\ result' = IF frame' = <<>> THEN Ok ELSE Running
    /\ UNCHANGED <<pins, op, startPins, nfail, prev>>

Next ==
    \/ CallSetRegisterValue
    \/ CallClearAllRegisters
    \/ CallSetChannelFrequency
    \/ CallSetNoise
    \/ CallSetMixerSettings
    \/ CallSetChannelLevel
    \/ CallSetEnvelopeFrequency
    \/ CallSetEnvelopeShape
    \/ CallSetIoPortData
    \/ PinSetOk
    \/ PinSetFail
    \/ Delay
    \/ Return

Spec == Init /\ [][Next]_vars

----------------------------------------------------------------------------
(* What the claims speak of *)

\* a pin set that succeeded, a delay that was called
Sets(p, level) == [pin |-> p, arg |-> level, err |-> "ok"]

Waits(us) == [pin |-> "delay_us", arg |-> us, err |-> "ok"]

\* D0..D7 set to the bits of byte b, least significant first
Drives(b) == [i \in 1..8 |-> Sets(DataPins[i], (b \div 2 ^ (i - 1)) % 2)]

\* the events of one register write (a, v), as the specification lists them
RegisterWrite(a, v) ==
    <<Sets("bdir", 1), Sets("bc1", 1)>> \o Drives(a) \o <<Waits(1)>>
        \o <<Sets("bdir", 0), Sets("bc1", 0), Waits(1)>>
        \o Drives(v)
        \o <<Sets("bdir", 1), Sets("bc1", 0), Waits(1)>>
        \o <<Sets("bdir", 0), Sets("bc1", 0), Waits(1)>>

\* events in one register write
WriteLen == Len(RegisterWrite(0, 0))

RECURSIVE RegisterWrites(_)
RegisterWrites(ws) ==
    IF ws = <<>> THEN <<>>
    ELSE RegisterWrite(ws[1][1], ws[1][2]) \o RegisterWrites(Tail(ws))

Last(t) == t[Len(t)]

\* the operation has issued n events and none of them failed
Issued(n) == Len(trace) = n /\ result.st # "Err"

NumDelays(t) == Cardinality({i \in 1..Len(t) : t[i].pin = "delay_us"})

----------------------------------------------------------------------------
(* C1 *)

\* C1: a set_register_value(a, v) in which no pin set fails issues exactly
\* AddressLatch, the bits of a, 1 us, Inactive, 1 us, the bits of v, Write,
\* 1 us, Inactive, 1 us.  The data lines hold a when AddressLatch is left and
\* v for the whole Write pulse, and the bus is Inactive between the phases.
C1_RegisterWriteSequence ==
    op.name = "set_register_value" =>
        /\ result.st = "Ok" => trace = RegisterWrite(op.a, op.d)
        /\ Issued(11) => BusMode(pins) = "AddressLatch" /\ DataByte(pins) = op.a
        /\ (\E n \in 13..22 : Issued(n)) => BusMode(pins) = "Inactive"
        /\ (\E n \in 23..25 : Issued(n)) =>
               BusMode(pins) = "Write" /\ DataByte(pins) = op.d

\* a register write that returned Ok although it was called with the bus left
\* in another mode than Inactive by a failed operation
C1_Witness ==
    /\ op = Call("set_register_value", "-", "-", 242, 52)
    /\ result.st = "Ok"
    /\ BusMode(startPins) # "Inactive"
    /\ DataByte(pins) = 52

----------------------------------------------------------------------------
(* C2 *)

\* C2 as stated: a set_register_value call that does not fail calls the delay
\* provider exactly twice.
C2_TwoDelaysPerWrite ==
    op.name = "set_register_value" /\ result.st = "Ok" => NumDelays(trace) = 2

\* C2, amended: a set_register_value call that does not fail calls the delay
\* provider exactly four times, each time for 1 microsecond: after the address
\* is driven in AddressLatch, after the return to Inactive that follows, after
\* Write is entered, and after the final return to Inactive.  No delay is
\* called anywhere else, and none by new().
C2_FourDelaysPerWrite ==
    /\ op.name = "set_register_value" /\ result.st = "Ok" =>
           /\ NumDelays(trace) = 4
           /\ {i \in 1..Len(trace) : trace[i].pin = "delay_us"} = {11, 14, 25, 28}
           /\ \A i \in {14, 28} :
                  trace[i - 2] = Sets("bdir", 0) /\ trace[i - 1] = Sets("bc1", 0)
    /\ trace # <<>> /\ Last(trace).pin = "delay_us" =>
           /\ Last(trace) = Waits(1)
           /\ op.name # "new"
           /\ Len(trace) % WriteLen \in {11, 14, 25, 0}

\* a register write that returned Ok, its fourth delay just called
C2_Witness ==
    /\ op.name = "set_register_value"
    /\ result.st = "Ok"
    /\ Len(trace) = 28
    /\ Last(trace) = Waits(1)

----------------------------------------------------------------------------
(* C3 *)

\* a register write is about to begin, or has just ended, without a failure:
\* the operation has issued a whole number of register writes
AtWriteBoundary ==
    /\ op.name # "new"
    /\ result.st \in {"running", "Ok"}
    /\ Len(trace) % WriteLen = 0

\* C3 as stated: in every sequence of operations, failed ones included, each
\* register write begins and ends with the bus in Inactive mode.
C3_InactiveAroundEveryWrite == AtWriteBoundary => BusMode(pins) = "Inactive"

\* C3, amended: each register write that does not fail ends with the bus in
\* Inactive mode, and a register write begins with the bus in Inactive mode
\* when the call before it (new() or an operation) returned Ok or when it
\* follows another register write of the same operation.  The first register
\* write after a failed operation begins in whatever mode the failure left.
C3_InactiveAroundWriteAfterOk ==
    AtWriteBoundary /\ (trace = <<>> => prev.ok) => BusMode(pins) = "Inactive"

\* the second register write of an operation is about to begin, the operation
\* itself called after a failed one that left the bus in another mode
C3_Witness ==
    /\ op.name = "set_channel_frequency"
    /\ Issued(28)
    /\ result.st = "running"
    /\ ~prev.ok
    /\ BusMode(startPins) # "Inactive"
    /\ BusMode(pins) = "Inactive"

----------------------------------------------------------------------------
(* C4 *)

\* the level the successful sets of t leave on pin p, which was at level l
LevelAfter(p, t, l) ==
    LET done == {i \in 1..Len(t) : t[i].pin = p /\ t[i].err = "ok"}
    IN  IF done = {} THEN l
        ELSE t[CHOOSE i \in done : \A j \in done : j <= i].arg

FailedLast == trace # <<>> /\ Last(trace).err # "ok"

\* C4: when a pin set fails, nothing is issued after it (no pin set, no delay,
\* no retry), the operation returns the error the pin reported, wrapped as
\* PinError, and every other pin keeps the level it was last set to.
C4_AbortOnPinFailure ==
    /\ Len(trace) >= 2 => trace[Len(trace) - 1].err = "ok"
    /\ result.st = "Err" <=> FailedLast
    /\ FailedLast =>
           /\ result = [st |-> "Err", e |-> Last(trace).err]
           /\ frame = <<>>
           /\ \A p \in Pins : pins[p] = LevelAfter(p, trace, startPins[p])

\* the set of D3 failed while the value of a register write was being driven
C4_Witness ==
    /\ op.name = "set_register_value"
    /\ Len(trace) = 18
    /\ Last(trace).pin = "d3"
    /\ result = [st |-> "Err", e |-> "d3"]

----------------------------------------------------------------------------
(* C5 *)

\* the register writes the claims give for the composite operations
ClaimedWrites(o) ==
    CASE o.name = "clear_all_registers" -> [i \in 1..16 |-> <<i - 1, 0>>]
      [] o.name = "set_channel_frequency" ->
             <<<<CASE o.ch = "A" -> 0 [] o.ch = "B" -> 2 [] o.ch = "C" -> 4,
                 o.d % 256>>,
               <<CASE o.ch = "A" -> 1 [] o.ch = "B" -> 3 [] o.ch = "C" -> 5,
                 o.d \div 256>>>>
      [] o.name = "set_envelope_frequency" ->
             <<<<11, o.d % 256>>, <<12, o.d \div 256>>>>

Composite ==
    op.name \in {"clear_all_registers", "set_channel_frequency",
                 "set_envelope_frequency"}

\* C5: a composite operation stops at its first failing register write and
\* returns the failure: the failed pin set is the last event it issues, so no
\* later register write is started, and what it issued before stands as the
\* complete earlier writes followed by the part of the failing one.
C5_CompositeAbortsAtFirstFailure ==
    Composite =>
        /\ Len(trace) >= 2 => trace[Len(trace) - 1].err = "ok"
        /\ FailedLast => todo = <<>> /\ frame = <<>> /\ result.st = "Err"
        /\ result.st = "Err" =>
               LET n == Len(trace)
                   whole == RegisterWrites(ClaimedWrites(op))
               IN  /\ n <= Len(whole)
                   /\ SubSeq(trace, 1, n - 1) = SubSeq(whole, 1, n - 1)
                   /\ trace[n].pin = whole[n].pin /\ trace[n].arg = whole[n].arg

\* clear_all_registers failed in its write to address 3, after three whole
\* register writes
C5_Witness ==
    /\ op.name = "clear_all_registers"
    /\ result.st = "Err"
    /\ Len(trace) = 3 * WriteLen + 5
    /\ todo = <<>>

----------------------------------------------------------------------------
(* C6 *)

\* C6: a clear_all_registers call in which no pin set fails issues exactly 16
\* register writes, to the addresses 0, 1, ..., 15 in this order, each of the
\* value 0, and nothing else.
C6_ClearWritesSixteenZeros ==
    op.name = "clear_all_registers" /\ result.st = "Ok" =>
        /\ Len(trace) = 16 * WriteLen
        /\ \A k \in 0..15 :
               SubSeq(trace, k * WriteLen + 1, (k + 1) * WriteLen)
                   = RegisterWrite(k, 0)

\* clear_all_registers returned Ok: the last address it drove was 15
C6_Witness ==
    /\ op.name = "clear_all_registers"
    /\ result.st = "Ok"
    /\ Len(trace) = 448
    /\ \A i \in 1..4 : trace[15 * 28 + 2 + i] = Sets(DataPins[i], 1)
    /\ DataByte(pins) = 0

----------------------------------------------------------------------------
(* C7 *)

\* the register writes the claims give for every operation
AllClaimedWrites(o) ==
    CASE Composite -> ClaimedWrites(o)
      [] o.name = "set_register_value" -> <<<<o.a, o.d>>>>
      [] o.name = "set_noise" -> <<<<6, o.d>>>>
      [] o.name = "set_mixer_settings" -> <<<<7, o.d>>>>
      [] o.name = "set_channel_level" ->
             <<<<CASE o.ch = "A" -> 8 [] o.ch = "B" -> 9 [] o.ch = "C" -> 10,
                 IF o.tag = "Fixed" THEN o.d % 16 ELSE 16>>>>
      [] o.name = "set_envelope_shape" -> <<<<13, o.d>>>>
      [] o.name = "set_io_port_data" -> <<<<IF o.ch = "A" THEN 14 ELSE 13, o.d>>>>

\* the n-th event of the operation o, whatever ran before it
ClaimedEvent(o, n) ==
    LET w == AllClaimedWrites(o)[(n - 1) \div WriteLen + 1]
    IN  RegisterWrite(w[1], w[2])[((n - 1) % WriteLen) + 1]

\* C7: the driver has no hidden state.  The n-th pin set or delay an operation
\* issues is fixed by the operation, its arguments and n, whatever the pins
\* were and whatever ran before, and it stops only at a failure or at its
\* end; a call repeated right after it returned Ok issues the same events
\* again, so two clear_all_registers in a row produce the same 16 writes.
C7_NoHiddenState ==
    /\ op.name # "new" /\ trace # <<>> =>
           /\ Last(trace).pin = ClaimedEvent(op, Len(trace)).pin
           /\ Last(trace).arg = ClaimedEvent(op, Len(trace)).arg
    /\ op.name # "new" /\ result.st = "Ok" =>
           Len(trace) = WriteLen * Len(AllClaimedWrites(op))
    /\ prev.op = op /\ trace # <<>> =>
           /\ Len(trace) <= Len(prev.trace)
           /\ Last(trace).pin = prev.trace[Len(trace)].pin
           /\ Last(trace).arg = prev.trace[Len(trace)].arg
    /\ prev.op = op /\ result.st = "Ok" => trace = prev.trace

\* clear_all_registers returned Ok twice in a row
C7_Witness ==
    /\ op.name = "clear_all_registers"
    /\ prev.op = op
    /\ result.st = "Ok"
    /\ Len(prev.trace) = 448
    /\ trace = prev.trace

----------------------------------------------------------------------------
(* C8 *)

\* C8: set_channel_frequency(channel, f) issues exactly two register writes,
\* (fine, f mod 256) then (rough, f div 256), where (fine, rough) is (0, 1)
\* for A, (2, 3) for B and (4, 5) for C; the high byte is not masked.
C8_ChannelFrequencySplit ==
    op.name = "set_channel_frequency" /\ result.st = "Ok" =>
        \E regs \in {<<"A", 0, 1>>, <<"B", 2, 3>>, <<"C", 4, 5>>} :
            /\ regs[1] = op.ch
            /\ trace = RegisterWrite(regs[2], op.d % 256)
                           \o RegisterWrite(regs[3], op.d \div 256)

\* set_channel_frequency(C, 0xF0FF) returned Ok: the rough register got 0xF0
C8_Witness ==
    /\ op = Call("set_channel_frequency", "C", "-", 0, 61695)
    /\ result.st = "Ok"
    /\ Len(trace) = 56
    /\ DataByte(pins) = 240

----------------------------------------------------------------------------
(* C9 *)

\* C9: set_channel_level issues exactly one register write, to 0x8 for A, 0x9
\* for B and 0xA for C: Fixed(n) writes n mod 16 and Envelope writes 16, so
\* the value is in 0..16 and its bit 4 is set only for Envelope.
C9_ChannelLevelValue ==
    op.name = "set_channel_level" /\ result.st = "Ok" =>
        \E reg \in {<<"A", 8>>, <<"B", 9>>, <<"C", 10>>}, v \in 0..16 :
            /\ reg[1] = op.ch
            /\ trace = RegisterWrite(reg[2], v)
            /\ DataByte(pins) = v
            /\ op.tag = "Fixed" => v = op.d % 16
            /\ op.tag = "Envelope" => v = 16
            /\ (v \div 16) % 2 = 1 <=> op.tag = "Envelope"

\* set_channel_level(A, Fixed(20)) returned Ok: the register got 4
C9_Witness ==
    /\ op = Call("set_channel_level", "A", "Fixed", 0, 20)
    /\ result.st = "Ok"
    /\ trace = RegisterWrite(8, 4)

----------------------------------------------------------------------------
(* C10 *)

\* C10: set_io_port_data(A, x) writes x to register 0xE and
\* set_io_port_data(B, x) writes x to register 0xD, the register of
\* set_envelope_shape: for a shape whose raw bits are x, the two calls issue
\* the same pin sets and delays.
C10_PortBAliasesEnvelopeShape ==
    /\ op.name = "set_io_port_data" /\ result.st = "Ok" =>
           /\ op.ch = "A" => trace = RegisterWrite(14, op.d)
           /\ op.ch = "B" => trace = RegisterWrite(13, op.d)
    /\ /\ {op.name, prev.op.name} = {"set_io_port_data", "set_envelope_shape"}
       /\ "A" \notin {op.ch, prev.op.ch}
       /\ result.st = "Ok"
       => op.d = prev.op.d /\ trace = prev.trace

\* set_io_port_data(B, 0xD) returned Ok right after set_envelope_shape(0xD)
C10_Witness ==
    /\ op = Call("set_io_port_data", "B", "-", 0, 13)
    /\ prev.op = Call("set_envelope_shape", "-", "-", 0, 13)
    /\ result.st = "Ok"
    /\ trace = prev.trace
    /\ Len(trace) = 28

----------------------------------------------------------------------------
(* C11 *)

\* C11: new() returns Ok only after it has set BDIR low and then BC1 low, so a
\* driver the caller obtains starts in Inactive mode whatever the pins were;
\* if one of the two sets fails, new() returns that failure and sets no
\* further pin, and no driver is obtained.
C11_NewForcesInactive ==
    /\ op.name = "new" /\ result.st = "Ok" =>
           /\ trace = <<Sets("bdir", 0), Sets("bc1", 0)>>
           /\ BusMode(pins) = "Inactive"
    /\ op.name = "new" /\ result.st = "Err" =>
           /\ \/ Len(trace) = 1 /\ trace[1].pin = "bdir"
              \/ Len(trace) = 2 /\ trace[1] = Sets("bdir", 0) /\ trace[2].pin = "bc1"
           /\ Last(trace).arg = 0
           /\ result = [st |-> "Err", e |-> Last(trace).err]
           /\ frame = <<>>
           /\ ~ENABLED Return
    /\ result.st = "idle" /\ prev.op.name = "new" =>
           prev.ok /\ BusMode(pins) = "Inactive"

\* new() returned Ok on pins handed over with BDIR and BC1 both high
C11_Witness ==
    /\ op.name = "new"
    /\ result.st = "Ok"
    /\ BusMode(startPins) = "AddressLatch"
    /\ BusMode(pins) = "Inactive"

----------------------------------------------------------------------------
(* C12 *)

\* C12: whenever new() or a public operation returns Ok, BDIR and BC1 are both
\* low, also when the operation was called with the bus in another mode left
\* by a failed operation.
C12_OkLeavesControlLow ==
    result.st = "Ok" => pins["bdir"] = 0 /\ pins["bc1"] = 0

\* set_noise returned Ok, called right after a failed operation that had left
\* BDIR or BC1 high
C12_Witness ==
    /\ op.name = "set_noise"
    /\ result.st = "Ok"
    /\ ~prev.ok
    /\ BusMode(startPins) # "Inactive"
    /\ BusMode(pins) = "Inactive"

----------------------------------------------------------------------------
(* C13 *)

\* the place of the last recorded event inside its register write, 1..WriteLen
PlaceInWrite == ((Len(trace) - 1) % WriteLen) + 1

\* C13 as stated: once the driver is constructed, BDIR and BC1 are never seen
\* at (low, high) after any pin set: the bus is always Inactive, Write or
\* AddressLatch.
C13_NeverBdirLowBc1High ==
    op.name # "new" => BusMode(pins) \in {"Inactive", "Write", "AddressLatch"}

\* the mode the control lines show after each event of a register write that
\* has not failed; the 12th event is bdir.set_low() of inactive_mode() while
\* BC1 is still high
C13_ModeByPlace ==
    op.name \notin {"new", "-"} /\ result.st \in {"running", "Ok"} /\ trace # <<>> =>
        /\ PlaceInWrite \in 2..11 => BusMode(pins) = "AddressLatch"
        /\ PlaceInWrite = 12 => BusMode(pins) = "Invalid"
        /\ PlaceInWrite \in 13..22 => BusMode(pins) = "Inactive"
        /\ PlaceInWrite \in 23..25 => BusMode(pins) = "Write"
        /\ PlaceInWrite \in 26..28 => BusMode(pins) = "Inactive"

\* (BDIR low, BC1 high) comes up only by a successful bdir.set_low() while BC1
\* is high, which is the first pin set of inactive_mode(): the 12th event of a
\* register write, or the first event of new()
C13_ArisesOnlyInInactiveMode ==
    BusMode(pins') = "Invalid" /\ BusMode(pins) # "Invalid" =>
        /\ trace' = Append(trace, Sets("bdir", 0))
        /\ pins["bc1"] = 1
        /\ \/ op.name = "new" /\ Len(trace') = 1
           \/ op.name # "new" /\ Len(trace') % WriteLen = 12

\* C13, amended: after each completed mode change the bus is in the mode
\* entered, one of Inactive, Write, AddressLatch; (BDIR low, BC1 high) is
\* driven between the two pin sets of inactive_mode() when BC1 was high, in
\* every register write, and nowhere else.
C13_BdirLowBc1HighOnlyInsideInactiveMode ==
    []C13_ModeByPlace /\ [][C13_ArisesOnlyInInactiveMode]_vars

\* a register write called in Inactive mode after an Ok call, with no pin
\* failure, stands at (BDIR low, BC1 high) after its 12th event
C13_Witness ==
    /\ op.name = "set_register_value"
    /\ prev.ok
    /\ BusMode(startPins) = "Inactive"
    /\ Issued(12)
    /\ Last(trace) = Sets("bdir", 0)
    /\ BusMode(pins) = "Invalid"

----------------------------------------------------------------------------
(* C14 *)

\* set_register_value(a, v) called in Inactive mode, no pin set failed so far
WritingFromInactive ==
    /\ op.name = "set_register_value"
    /\ BusMode(startPins) = "Inactive"
    /\ result.st \in {"running", "Ok"}

\* C14 as stated: during set_register_value(a, v) called in Inactive mode with
\* no failing pin set, whenever BDIR is high and BC1 is low the data lines
\* hold v, never the byte left before the call and never a.
C14_WriteModeOnlyWithValue ==
    WritingFromInactive /\ BusMode(pins) = "Write" => DataByte(pins) = op.d

\* C14, amended: such a register write shows Write mode in two stretches: after
\* its first pin set (bdir.set_high() of address_mode(), BC1 still low), with
\* the data lines holding the byte left before the call, and from
\* bdir.set_high() of write_mode() until inactive_mode() (events 23 to 25),
\* with the data lines holding v.  It never shows Write mode while the data
\* lines are being driven, and never with a on them unless the lines held a
\* before the call.
C14_WriteModeWithValueOrStaleByte ==
    WritingFromInactive =>
        /\ BusMode(pins) = "Write" <=> Len(trace) \in {1} \cup 23..25
        /\ Len(trace) = 1 => DataByte(pins) = DataByte(startPins)
        /\ Len(trace) \in 23..25 => DataByte(pins) = op.d

\* after the first pin set of a register write called in Inactive mode the bus
\* shows Write mode with a byte on the data lines that is neither v nor a
C14_Witness ==
    /\ WritingFromInactive
    /\ prev.ok
    /\ Issued(1)
    /\ BusMode(pins) = "Write"
    /\ DataByte(pins) \notin {op.d, op.a}

----------------------------------------------------------------------------
(* C15 *)

\* C15: set_envelope_frequency(f) issues exactly two register writes, first
\* (0xB, f mod 256), then (0xC, f div 256): every event it issues, failed or
\* not, is the next one of that sequence, and it returns Ok at its end.
C15_EnvelopeFrequencySplit ==
    op.name = "set_envelope_frequency" =>
        LET claimed == RegisterWrite(11, op.d % 256) \o RegisterWrite(12, op.d \div 256)
        IN  /\ Len(trace) <= Len(claimed)
            /\ trace # <<>> =>
                   /\ Last(trace).pin = claimed[Len(trace)].pin
                   /\ Last(trace).arg = claimed[Len(trace)].arg
            /\ result.st = "Ok" <=> trace = claimed

\* set_envelope_frequency(0x1234) returned Ok: 0x34 went to 0xB, 0x12 to 0xC
C15_Witness ==
    /\ op = Call("set_envelope_frequency", "-", "-", 0, 4660)
    /\ result.st = "Ok"
    /\ SubSeq(trace, 1, WriteLen) = RegisterWrite(11, 52)
    /\ DataByte(pins) = 18

----------------------------------------------------------------------------
(* C16 *)

OneWriteOps ==
    {"set_noise", "set_mixer_settings", "set_channel_level",
     "set_envelope_shape", "set_io_port_data"}

TwoWriteOps == {"set_channel_frequency", "set_envelope_frequency"}

\* C16: a typed operation is one register write, except set_channel_frequency
\* and set_envelope_frequency, which are two.  set_noise(f) writes (0x6, f),
\* set_mixer_settings(s) writes (0x7, raw byte of s), set_envelope_shape(s)
\* writes (0xD, raw byte of s), a byte of at most 0b1111 for a shape made of the
\* four declared flags; nothing else is set or waited for.
C16_TypedOperationWrites ==
    /\ op.name \in OneWriteOps =>
           /\ Len(trace) <= WriteLen
           /\ result.st = "Ok" <=> Issued(WriteLen)
    /\ op.name \in TwoWriteOps =>
           /\ Len(trace) <= 2 * WriteLen
           /\ result.st = "Ok" <=> Issued(2 * WriteLen)
    /\ op.name = "set_noise" /\ result.st = "Ok" =>
           trace = RegisterWrite(6, op.d)
    /\ op.name = "set_mixer_settings" /\ result.st = "Ok" =>
           trace = RegisterWrite(7, op.d)
    /\ op.name = "set_envelope_shape" /\ result.st = "Ok" =>
           /\ trace = RegisterWrite(13, op.d)
           /\ op.d <= 15
           /\ DataByte(pins) <= 15

\* set_noise(0x34) returned Ok after one register write: the byte went out
\* whole, D5 set to its bit 5
C16_Witness ==
    /\ op = Call("set_noise", "-", "-", 0, 52)
    /\ result.st = "Ok"
    /\ Len(trace) = WriteLen
    /\ trace[20] = Sets("d5", 1)
    /\ DataByte(pins) = 52

----------------------------------------------------------------------------
(* C17 *)

\* the last event belongs to a write_u8 call: events 3 to 10 of a register
\* write drive its address, events 15 to 22 its value
InDrive ==
    /\ op.name \notin {"new", "-"}
    /\ trace # <<>>
    /\ PlaceInWrite \in (3..10) \cup (15..22)

\* the register write the last event belongs to, and its number in the call
WriteNo == ((Len(trace) - 1) \div WriteLen) + 1

CurrentWrite == AllClaimedWrites(op)[WriteNo]

\* the byte that write_u8 call drives, and the data line (0..7) of the last event
DrivenByte == IF PlaceInWrite <= 10 THEN CurrentWrite[1] ELSE CurrentWrite[2]

DrivenLine == IF PlaceInWrite <= 10 THEN PlaceInWrite - 3 ELSE PlaceInWrite - 15

\* the byte on D0..D7 when that write_u8 call began
ByteBefore ==
    IF PlaceInWrite > 10 THEN CurrentWrite[1]
    ELSE IF WriteNo = 1 THEN DataByte(startPins)
    ELSE AllClaimedWrites(op)[WriteNo - 1][2]

BitOf(b, i) == (b \div 2 ^ i) % 2

\* C17: write_u8 sets the eight data lines one at a time in the order D0..D7,
\* line Di to bit i of the byte, and sets each of them on every call, also
\* when the level does not change; after a drive without failure D0..D7 read
\* as that byte; when the set of Di fails, D0..D(i-1) hold the new bits and
\* Di..D7 the levels they had before the call.
C17_DriveByteInOrder ==
    InDrive =>
        /\ Last(trace).pin = DataPins[DrivenLine + 1]
        /\ Last(trace).arg = BitOf(DrivenByte, DrivenLine)
        /\ \A j \in 0..7 :
               pins[DataPins[j + 1]] =
                   IF j < DrivenLine \/ (j = DrivenLine /\ ~FailedLast)
                   THEN BitOf(DrivenByte, j)
                   ELSE BitOf(ByteBefore, j)
        /\ DrivenLine = 7 /\ ~FailedLast =>
               /\ SubSeq(trace, Len(trace) - 7, Len(trace)) = Drives(DrivenByte)
               /\ DataByte(pins) = DrivenByte

\* the set of D3 failed while the value was driven: D0..D2 hold the value's
\* bits, and a line after D3 still holds a bit of the address that differs
\* from the value's
C17_Witness ==
    /\ InDrive
    /\ FailedLast
    /\ PlaceInWrite = 18
    /\ Last(trace).pin = "d3"
    /\ \A j \in 0..2 : pins[DataPins[j + 1]] = BitOf(DrivenByte, j)
    /\ \E j \in 4..7 :
           /\ pins[DataPins[j + 1]] = BitOf(CurrentWrite[1], j)
           /\ pins[DataPins[j + 1]] # BitOf(DrivenByte, j)

----------------------------------------------------------------------------
(* C18 *)

ControlPins == {"bdir", "bc1"}

\* what each event of a register write acts on: the mode changes are events
\* 1-2, 12-13, 23-24 and 26-27, the byte drives 3-10 and 15-22
C18_EventKinds ==
    /\ op.name = "new" /\ trace # <<>> => Last(trace).pin \in ControlPins
    /\ op.name \notin {"new", "-"} /\ trace # <<>> =>
           /\ PlaceInWrite \in {1, 2, 12, 13, 23, 24, 26, 27} =>
                  Last(trace).pin \in ControlPins
           /\ PlaceInWrite \in (3..10) \cup (15..22) =>
                  Last(trace).pin \in Pins \ ControlPins
           /\ PlaceInWrite \in {11, 14, 25, 28} => Last(trace).pin = "delay_us"

\* the data lines through a call: untouched by new(); as the call found them
\* until its first byte drive; the value of the register write from the end
\* of its value drive to the end of the write
C18_DataLinesHeld ==
    /\ op.name = "new" => DataByte(pins) = DataByte(startPins)
    /\ result.st = "idle" => pins = startPins
    /\ op.name \notin {"new", "-"} /\ result.st \in {"running", "Ok"} =>
           /\ Len(trace) <= 2 => DataByte(pins) = DataByte(startPins)
           /\ trace # <<>> /\ PlaceInWrite \in 10..14 =>
                  DataByte(pins) = CurrentWrite[1]
           /\ trace # <<>> /\ PlaceInWrite \in 22..28 =>
                  DataByte(pins) = CurrentWrite[2]

\* a step changes no pin but the one its event sets; a step that records no
\* event (the return to the caller, the next call) and a delay change none
C18_OnlyTheSetPinChanges ==
    \A p \in Pins :
        pins'[p] # pins[p] => trace' = Append(trace, Sets(p, pins'[p]))

\* C18: a mode change leaves D0..D7 as they are, a byte drive leaves BDIR and
\* BC1 as they are, new() sets no data line and waits for nothing; so after a
\* register write (a, v) without failure D0..D7 hold v until the next
\* operation drives them.
C18_FrameOfModeAndDrive ==
    /\ []C18_EventKinds
    /\ []C18_DataLinesHeld
    /\ [][C18_OnlyTheSetPinChanges]_vars

\* set_register_value(a, v) was called after an operation that had left
\* another byte than v or a on D0..D7; it has now returned Ok, the last mode
\* change done, and the lines hold v
C18_Witness ==
    /\ op.name = "set_register_value"
    /\ result.st = "Ok"
    /\ prev.ok
    /\ DataByte(startPins) \notin {op.a, op.d}
    /\ Last(trace) = Waits(1)
    /\ trace[27] = Sets("bc1", 0)
    /\ DataByte(pins) = op.d

====
